---- MODULE Spec2Model ----
(***************************************************************************)
(* A model of linter.py: the comment policy, the expectation block         *)
(* extractor, the per-declaration rules, the per-file pass and main.       *)
(*                                                                         *)
(* Text is modelled character by character: a str is a sequence of         *)
(* one-character strings, a list of lines a sequence of such sequences.    *)
(* An identifier is a str as well.                                         *)
(***************************************************************************)
EXTENDS Integers, Sequences, FiniteSets, TLC

VARIABLES
    pc,                 \* position of the call being run
    lines,              \* the raw lines handed to the callee
    start_index,        \* extract_range_block's start_index
    block,              \* extract_range_block's return value
    comments,           \* check_comment_rules' comments: <<lineno, text>> pairs
    total_lines,        \* check_comment_rules' total_lines
    func,               \* check_function_rules' func (an ast.FunctionDef)
    imports,            \* the file's imports set
    globals_in_module,  \* the file's globals set
    next_node,          \* the top-level sibling after func, or None
    failures,           \* the callee's returned violation list
    hashseed,           \* the interpreter's str hash salt: decides set iteration order
    file,               \* the file lint_file opens: its path, raw lines and syntax tree
    runs,               \* the lists lint_file returned so far, one per run
    files,              \* what collect_python_files returns to main
    call_kwargs,        \* the keyword arguments main is called with
    path_i,             \* main's position in its loop over the files
    errors,             \* main's errors list
    printed,            \* what main printed so far
    tests_done,         \* how many of main's regression self-tests completed
    ret                 \* main's return value, or None

vars == <<pc, lines, start_index, block, comments, total_lines, func, imports,
          globals_in_module, next_node, failures, hashseed, file, runs, files,
          call_kwargs, path_i, errors, printed, tests_done, ret>>

None == [node |-> "None"]

----------------------------------------------------------------------------
(* Bounds of the model *)

MaxLines == 4
MaxCommentLines == 2
MaxIndent == 1
MaxWords == 7
MaxBody == 2
MaxGap == 1
MaxDecls == 2
MaxFiles == 3

----------------------------------------------------------------------------
(* str methods, as CPython computes them *)

Whitespace == {" ", "\t"}

RECURSIVE lstrip_ws(_)
lstrip_ws(s) ==
    IF s # <<>> /\ Head(s) \in Whitespace THEN lstrip_ws(Tail(s)) ELSE s

RECURSIVE rstrip_ws(_)
rstrip_ws(s) ==
    IF s # <<>> /\ s[Len(s)] \in Whitespace
    THEN rstrip_ws(SubSeq(s, 1, Len(s) - 1)) ELSE s

\* s.strip()
strip(s) == rstrip_ws(lstrip_ws(s))

\* s.lstrip(chars)
RECURSIVE lstrip_chars(_, _)
lstrip_chars(s, chars) ==
    IF s # <<>> /\ Head(s) \in chars THEN lstrip_chars(Tail(s), chars) ELSE s

\* s.startswith(prefix)
startswith(s, prefix) ==
    /\ Len(prefix) <= Len(s)
    /\ SubSeq(s, 1, Len(prefix)) = prefix

\* sub in s
contains(s, sub) ==
    \E i \in 0..(Len(s) - Len(sub)) : SubSeq(s, i + 1, i + Len(sub)) = sub

\* the 0-based offset of the first occurrence of sub in s, or -1: s.find(sub)
find(s, sub) ==
    IF contains(s, sub)
    THEN CHOOSE i \in 0..(Len(s) - Len(sub)) :
            /\ SubSeq(s, i + 1, i + Len(sub)) = sub
            /\ \A j \in 0..(i - 1) : SubSeq(s, j + 1, j + Len(sub)) # sub
    ELSE -1

\* s.split(): the maximal runs of non-whitespace characters, in order
RECURSIVE split_ws_from(_, _)
split_ws_from(s, word) ==
    IF s = <<>> THEN (IF word = <<>> THEN <<>> ELSE <<word>>)
    ELSE IF Head(s) \in Whitespace
         THEN (IF word = <<>> THEN <<>> ELSE <<word>>) \o split_ws_from(Tail(s), <<>>)
         ELSE split_ws_from(Tail(s), Append(word, Head(s)))

split_ws(s) == split_ws_from(s, <<>>)

\* s.split(sep): the pieces of s between the occurrences of sep, left to right
RECURSIVE split_sep(_, _)
split_sep(s, sep) ==
    LET at == find(s, sep) IN
    IF at < 0 THEN <<s>>
    ELSE <<SubSeq(s, 1, at)>> \o split_sep(SubSeq(s, at + Len(sep) + 1, Len(s)), sep)

\* ''.join(parts)
RECURSIVE join(_)
join(parts) == IF parts = <<>> THEN <<>> ELSE Head(parts) \o join(Tail(parts))

\* seq[lo:hi] for 0 <= lo, 0 <= hi
slice(seq, lo, hi) ==
    SubSeq(seq, lo + 1, IF hi < Len(seq) THEN hi ELSE Len(seq))

----------------------------------------------------------------------------
(* extract_range_block *)

\* line.strip().startswith('#')
IsCommentLine(line) == startswith(strip(line), <<"#">>)

\* not line.strip()
IsBlankLine(line) == strip(line) = <<>>

\* extract_loop with block.append(lines[idx]) for block.insert(0, lines[idx]).
RECURSIVE extract_loop_append(_, _, _)
extract_loop_append(ls, idx, blk) ==
    IF idx >= 0 /\ (IsCommentLine(ls[idx + 1]) \/ IsBlankLine(ls[idx + 1]))
    THEN extract_loop_append(ls, idx - 1,
                      IF IsCommentLine(ls[idx + 1]) THEN Append(blk, ls[idx + 1]) ELSE blk)
    ELSE blk

\* The while loop of extract_range_block from idx (0-based) downward, block
\* being the lines inserted at the front so far.
RECURSIVE extract_loop(_, _, _)
extract_loop(ls, idx, blk) ==
    IF idx >= 0 /\ (IsCommentLine(ls[idx + 1]) \/ IsBlankLine(ls[idx + 1]))
    THEN extract_loop(ls, idx - 1,
                      IF IsCommentLine(ls[idx + 1]) THEN <<ls[idx + 1]>> \o blk ELSE blk)
    ELSE blk

extract_range_block(ls, start) == extract_loop(ls, start - 1, <<>>)

----------------------------------------------------------------------------
(* Violation records.  The linter renders KIND:subject strings; the model  *)
(* keeps the parts the f-string puts together: the kind, the declaration   *)
(* (or the path, or the literal <file>), the name after the slash and the  *)
(* line number after the slash.                                            *)

FILE_TAG == <<"<","f","i","l","e",">">>

DeclViolation(kind, decl) ==
    [kind |-> kind, decl |-> decl, name |-> <<>>, lineno |-> 0]

NameViolation(kind, decl, name) ==
    [kind |-> kind, decl |-> decl, name |-> name, lineno |-> 0]

LineViolation(kind, lineno) ==
    [kind |-> kind, decl |-> FILE_TAG, name |-> <<>>, lineno |-> lineno]

----------------------------------------------------------------------------
(* parse_comments and check_comment_rules *)

\* The for loop of parse_comments from line number i on: the (i, line) pairs
\* of the comment lines (is_comment) or of the other lines.
RECURSIVE parse_loop(_, _, _)
parse_loop(ls, i, is_comment) ==
    IF ls = <<>> THEN <<>>
    ELSE (IF IsCommentLine(Head(ls)) = is_comment THEN <<(<<i, Head(ls)>>)>> ELSE <<>>)
         \o parse_loop(Tail(ls), i + 1, is_comment)

parse_comments(ls) ==
    [comments |-> parse_loop(ls, 1, TRUE),
     code     |-> parse_loop(ls, 1, FALSE)]

DensityFactor == 3
TooShortWords == 5

\* text.lstrip('#').strip()
comment_body(text) == strip(lstrip_chars(text, {"#"}))

\* The for loop of check_comment_rules over the comments left, seen being the
\* bodies met so far.
RECURSIVE comment_loop(_, _)
comment_loop(cs, seen) ==
    IF cs = <<>> THEN <<>>
    ELSE LET lineno == Head(cs)[1]
             body   == comment_body(Head(cs)[2])
         IN  (IF Len(split_ws(body)) <= TooShortWords
              THEN <<LineViolation("COMMENT_TOO_SHORT", lineno)>> ELSE <<>>)
             \o (IF body \in seen
                 THEN <<LineViolation("DUPLICATE_COMMENT_FOUND", lineno)>> ELSE <<>>)
             \o comment_loop(Tail(cs), seen \cup {body})

check_comment_rules(cs, total) ==
    (IF Len(cs) * DensityFactor < total
     THEN <<LineViolation("INSUFFICIENT_COMMENT_DENSITY",
                          IF cs # <<>> THEN cs[1][1] ELSE 1)>>
     ELSE <<>>)
    \o comment_loop(cs, {})

----------------------------------------------------------------------------
(* check_function_rules and _NameVisitor *)

RANGE_MARKER == <<"#"," ","[","R","A","N","G","E","-","E","X","P","E","C","T","A","T","I","O","N","]",":"," ">>
TEST_PREFIX == <<"t","e","s","t","_">>
SEED_CALL == <<".","s","e","e","d","(">>
CASE_WORD == <<"c","a","s","e">>
ARROW == <<"→">>

\* An ast.arg node.
ArgNode(name) == [node |-> "arg", arg |-> name]

\* The order in which a for loop meets the elements of a set of str.  A set
\* is a hash table and the hash of a str is salted per interpreter process;
\* seed gives each name its place, so the order is fixed within a process
\* and differs between processes.
RECURSIVE set_order(_, _)
set_order(S, seed) ==
    IF S = {} THEN <<>>
    ELSE LET x == CHOOSE x \in S : \A y \in S : seed[x] <= seed[y]
         IN  <<x>> \o set_order(S \ {x}, seed)

\* visitor.used and visitor.assigned after visitor.visit(func): visit_Name
\* files every Name node of the subtree by its ctx; an ast.arg is no Name.
visitor_used(f) == {n.id : n \in {m \in f.names : m.ctx = "Load"}}
visitor_assigned(f) == {n.id : n \in {m \in f.names : m.ctx = "Store"}}

\* name == node for a str and an ast.arg: ast nodes define no __eq__, so
\* object.__eq__ answers by identity, and a str is never an ast.arg.
str_eq_node(name, node) == FALSE

\* name in func.args.args
in_args(name, arglist) ==
    \E i \in 1..Len(arglist) : str_eq_node(name, arglist[i])

\* The loops over imports and over globals_in_module: names in iteration order.
RECURSIVE scope_loop(_, _, _)
scope_loop(names, f, kind) ==
    IF names = <<>> THEN <<>>
    ELSE LET name == Head(names) IN
         (IF /\ name \in visitor_used(f)
             /\ ~in_args(name, f.args.args)
             /\ name \notin visitor_assigned(f)
          THEN <<NameViolation(kind, f.name, name)>> ELSE <<>>)
         \o scope_loop(Tail(names), f, kind)

\* ''.join(lines[func.body[0].lineno-1:func.body[-1].lineno])
body_text(f, ls) ==
    join(slice(ls, f.body[1].lineno - 1, f.body[Len(f.body)].lineno))

\* re.search(rf'^#\s+{p}:', line): '#' first, one or more whitespace
\* characters, then p and a colon.
param_doc_match(line, p) ==
    /\ Len(line) >= 1
    /\ line[1] = "#"
    /\ \E k \in 1..(Len(line) - 1) :
          /\ \A j \in 2..(k + 1) : line[j] \in Whitespace
          /\ startswith(SubSeq(line, k + 2, Len(line)), p \o <<":">>)

\* [arg.arg for arg in func.args.args]
RECURSIVE arg_names(_)
arg_names(arglist) ==
    IF arglist = <<>> THEN <<>> ELSE <<Head(arglist).arg>> \o arg_names(Tail(arglist))

RECURSIVE param_loop(_, _, _)
param_loop(params, f, blk) ==
    IF params = <<>> THEN <<>>
    ELSE (IF \E i \in 1..Len(blk) : param_doc_match(blk[i], Head(params))
          THEN <<>>
          ELSE <<NameViolation("RANGE_EXPECTATION_INCOMPLETE", f.name, Head(params))>>)
         \o param_loop(Tail(params), f, blk)

\* line.split('case')[1].split(':')[0].strip()
case_label(line) == strip(split_sep(split_sep(line, CASE_WORD)[2], <<":">>)[1])

RECURSIVE case_loop(_, _)
case_loop(blk, f) ==
    IF blk = <<>> THEN <<>>
    ELSE (IF contains(Head(blk), CASE_WORD) /\ ~contains(Head(blk), ARROW)
          THEN <<NameViolation("CASE_EXPECTATION_UNDEFINED", f.name, case_label(Head(blk)))>>
          ELSE <<>>)
         \o case_loop(Tail(blk), f)

\* The rules in the order the function appends their violations.
header_rule(f, blk) ==
    IF blk = <<>> \/ ~startswith(blk[1], RANGE_MARKER \o f.name)
    THEN <<DeclViolation("MISSING_RANGE_EXPECTATION", f.name)>> ELSE <<>>

\* adjacency_rule without the exemption of test_ declarations.
adjacency_rule_no_exemption(f, nxt) ==
    IF ~(nxt.node = "FunctionDef" /\ startswith(nxt.name, TEST_PREFIX))
    THEN <<DeclViolation("IMMEDIATE_TEST_MISSING", f.name)>> ELSE <<>>

adjacency_rule(f, nxt) ==
    IF ~startswith(f.name, TEST_PREFIX)
       /\ ~(nxt.node = "FunctionDef" /\ startswith(nxt.name, TEST_PREFIX))
    THEN <<DeclViolation("IMMEDIATE_TEST_MISSING", f.name)>> ELSE <<>>

seed_rule(f, ls) ==
    IF startswith(f.name, TEST_PREFIX) /\ ~contains(body_text(f, ls), SEED_CALL)
    THEN <<DeclViolation("NON_DETERMINISTIC_TESTING", f.name)>> ELSE <<>>

param_rule(f, blk) == param_loop(arg_names(f.args.args), f, blk)

check_function_rules(f, ls, imps, globs, nxt, seed) ==
    LET blk == extract_range_block(ls, f.lineno - 1) IN
       header_rule(f, blk)
    \o adjacency_rule(f, nxt)
    \o scope_loop(set_order(imps, seed), f, "IMPLICIT_IMPORT_VIOLATION")
    \o scope_loop(set_order(globs, seed), f, "OUT_OF_SCOPE_VARIABLE")
    \o seed_rule(f, ls)
    \o param_rule(f, blk)
    \o case_loop(blk, f)

----------------------------------------------------------------------------
(* lint_file *)

UpperCase == {"A","B","C","D","E","F","G","H","I","J","K","L","M",
              "N","O","P","Q","R","S","T","U","V","W","X","Y","Z"}
LowerCase == {"a","b","c","d","e","f","g","h","i","j","k","l","m",
              "n","o","p","q","r","s","t","u","v","w","x","y","z"}

\* s.isupper(): some cased character, and no lowercase one
isupper(s) ==
    /\ \E i \in 1..Len(s) : s[i] \in UpperCase
    /\ \A i \in 1..Len(s) : s[i] \notin LowerCase

\* raw.splitlines(), for text whose only line boundary is "\n": the pieces
\* that end at a newline, and the rest of the text when it is not empty.
splitlines(raw) ==
    LET breaks == {i \in 1..Len(raw) : raw[i] = "\n"}
        ends   == breaks \cup (IF raw # <<>> /\ raw[Len(raw)] # "\n"
                               THEN {Len(raw) + 1} ELSE {})
        end(k) == CHOOSE e \in ends : Cardinality({x \in ends : x < e}) = k - 1
    IN  [k \in 1..Cardinality(ends) |->
            SubSeq(raw, IF k = 1 THEN 1 ELSE end(k - 1) + 1, end(k) - 1)]

ALL_NAME == <<"_","_","a","l","l","_","_">>

IsImport(node) == node.node \in {"Import", "ImportFrom"}

\* alias.asname or alias.name.split('.')[0]; an asname of None is <<>>
alias_binding(alias) ==
    IF alias.asname # <<>> THEN alias.asname ELSE split_sep(alias.name, <<".">>)[1]

\* The names the first loop of lint_file adds to imports.
tree_imports(body) ==
    UNION {{alias_binding(body[i].names[j]) : j \in 1..Len(body[i].names)} :
              i \in {k \in 1..Len(body) : IsImport(body[k])}}

\* The names the first loop of lint_file adds to globals_in_module.
tree_globals(body) ==
    UNION {{body[i].targets[j].id :
               j \in {t \in 1..Len(body[i].targets) :
                        /\ body[i].targets[t].node = "Name"
                        /\ ~isupper(body[i].targets[t].id)}} :
              i \in {k \in 1..Len(body) : body[k].node = "Assign"}}

has_all(body) ==
    \E i \in 1..Len(body) :
        /\ body[i].node = "Assign"
        /\ \E j \in 1..Len(body[i].targets) :
              /\ body[i].targets[j].node = "Name"
              /\ body[i].targets[j].id = ALL_NAME

\* The same loop with the violations of the later declarations put first.
RECURSIVE function_loop_later_first(_, _, _, _, _, _)
function_loop_later_first(body, i, ls, imps, globs, seed) ==
    IF i > Len(body) THEN <<>>
    ELSE function_loop_later_first(body, i + 1, ls, imps, globs, seed)
         \o (IF body[i].node = "FunctionDef"
             THEN check_function_rules(body[i], ls, imps, globs,
                                       IF i + 1 <= Len(body) THEN body[i + 1] ELSE None,
                                       seed)
             ELSE <<>>)

\* The loop over enumerate(body), from index i (1-based) on.
RECURSIVE function_loop(_, _, _, _, _, _)
function_loop(body, i, ls, imps, globs, seed) ==
    IF i > Len(body) THEN <<>>
    ELSE (IF body[i].node = "FunctionDef"
          THEN check_function_rules(body[i], ls, imps, globs,
                                    IF i + 1 <= Len(body) THEN body[i + 1] ELSE None,
                                    seed)
          ELSE <<>>)
         \o function_loop(body, i + 1, ls, imps, globs, seed)

lint_file(f, seed) ==
    LET ls   == splitlines(f.raw)
        body == f.tree
    IN  (IF ~has_all(body)
         THEN <<DeclViolation("MODULE_EXPORT_VIOLATION", f.path)>> ELSE <<>>)
        \o check_comment_rules(parse_comments(ls).comments, Len(ls))
        \o function_loop(body, 1, ls, tree_imports(body), tree_globals(body), seed)

----------------------------------------------------------------------------
(* The source text and syntax trees the checks run over.  ast.parse is the *)
(* linter's collaborator: a declaration is written down once, as a record, *)
(* and both its lines and its FunctionDef node (with the line numbers      *)
(* ast.parse would give) are derived from that record.                     *)

P == <<"p">>
M == <<"m">>
R == <<"r">>
F_NAME == <<"f">>
G_NAME == <<"g">>
TEST_F == TEST_PREFIX \o F_NAME
INDENT == <<" "," "," "," ">>

NameNode(id, ctx) == [id |-> id, ctx |-> ctx]

\* Body statements: the lines of each and the Name nodes in it.
PassStmt == [kind |-> "pass", id |-> <<>>]
LoadStmt(n) == [kind |-> "load", id |-> n]
StoreStmt(n) == [kind |-> "store", id |-> n]
SeedStmt == [kind |-> "seed", id |-> <<>>]
SeedTailStmt == [kind |-> "seed_tail", id |-> <<>>]
SeedSplitStmt == [kind |-> "seed_split", id |-> <<>>]

StmtLines(st) ==
    CASE st.kind = "pass"  -> <<INDENT \o <<"p","a","s","s">> >>
      [] st.kind = "load"  -> <<INDENT \o st.id>>
      [] st.kind = "store" -> <<INDENT \o st.id \o <<" ","="," ","0">> >>
      [] st.kind = "seed"  -> <<INDENT \o R \o SEED_CALL \o <<"0",")">> >>
      [] st.kind = "seed_tail" ->
            <<INDENT \o R \o <<"(">>,
              INDENT \o INDENT \o R \o SEED_CALL \o <<"0",")",")">> >>
      [] st.kind = "seed_split" ->
            <<INDENT \o <<"(">> \o R \o <<".","s","e","e","d">>,
              <<"(","0",")",")">> >>

StmtNames(st) ==
    CASE st.kind = "pass"  -> {}
      [] st.kind = "load"  -> {NameNode(st.id, "Load")}
      [] st.kind = "store" -> {NameNode(st.id, "Store")}
      [] OTHER             -> {NameNode(R, "Load")}

RECURSIVE BodyLines(_)
BodyLines(stmts) ==
    IF stmts = <<>> THEN <<>> ELSE StmtLines(Head(stmts)) \o BodyLines(Tail(stmts))

\* The statements' line ranges, the first statement starting at line at.
RECURSIVE BodyNodes(_, _)
BodyNodes(stmts, at) ==
    IF stmts = <<>> THEN <<>>
    ELSE LET n == Len(StmtLines(Head(stmts))) IN
         <<[lineno |-> at, end_lineno |-> at + n - 1]>> \o BodyNodes(Tail(stmts), at + n)

RECURSIVE JoinWith(_, _)
JoinWith(parts, sep) ==
    IF parts = <<>> THEN <<>>
    ELSE IF Len(parts) = 1 THEN parts[1]
    ELSE parts[1] \o sep \o JoinWith(Tail(parts), sep)

RECURSIVE Prefixed(_, _)
Prefixed(names, prefix) ==
    IF names = <<>> THEN <<>> ELSE <<prefix \o Head(names)>> \o Prefixed(Tail(names), prefix)

\* The parameter list as written between the parentheses of the def line.
ParamText(d) ==
    JoinWith(   d.posonly
             \o (IF d.posonly # <<>> THEN << <<"/">> >> ELSE <<>>)
             \o d.args
             \o Prefixed(d.vararg, <<"*">>)
             \o (IF d.vararg = <<>> /\ d.kwonly # <<>> THEN << <<"*">> >> ELSE <<>>)
             \o d.kwonly
             \o Prefixed(d.kwarg, <<"*","*">>),
             <<",">>)

DefLine(d) == <<"d","e","f"," ">> \o d.name \o <<"(">> \o ParamText(d) \o <<")",":">>

\* Every parameter of the declaration, in the order of the def line.
AllParams(d) == d.posonly \o d.args \o d.vararg \o d.kwonly \o d.kwarg

DocLine(p, desc) == <<"#"," "," "," ">> \o p \o <<":">> \o desc
CaseLine(arrow) ==
    <<"#"," "," ","c","a","s","e"," ","k",":"," ","x">>
    \o (IF arrow THEN <<" ">> \o ARROW \o <<" ","y">> ELSE <<>>)

\* The first line of the comment block written above the declaration.
HeaderLines(d) ==
    CASE d.hdr = "none"   -> <<>>
      [] d.hdr = "own"    -> <<RANGE_MARKER \o d.name \o d.desc>>
      [] d.hdr = "bare"   -> <<RANGE_MARKER \o d.name>>
      [] d.hdr = "longer" -> <<RANGE_MARKER \o d.name \o <<"o">> \o d.desc>>
      [] d.hdr = "other"  -> <<RANGE_MARKER \o G_NAME \o d.desc>>
      [] d.hdr = "plain"  -> << <<"#"," ","x">> >>

RECURSIVE DocLines(_, _, _)
DocLines(params, documented, desc) ==
    IF params = <<>> THEN <<>>
    ELSE (IF Head(params) \in documented THEN <<DocLine(Head(params), desc)>> ELSE <<>>)
         \o DocLines(Tail(params), documented, desc)

BlockLines(d) ==
       HeaderLines(d)
    \o DocLines(AllParams(d), d.documented, d.desc)
    \o (CASE d.cases = "none" -> <<>>
          [] d.cases = "arrow" -> <<CaseLine(TRUE)>>
          [] d.cases = "noarrow" -> <<CaseLine(FALSE)>>)

RECURSIVE Blanks(_)
Blanks(n) == IF n = 0 THEN <<>> ELSE << <<>> >> \o Blanks(n - 1)

\* The declaration's lines: comment block, blank lines, def line, body.
DeclLines(d) == BlockLines(d) \o Blanks(d.gap) \o <<DefLine(d)>> \o BodyLines(d.body)

RECURSIVE ArgNodes(_)
ArgNodes(names) ==
    IF names = <<>> THEN <<>> ELSE <<ArgNode(Head(names))>> \o ArgNodes(Tail(names))

\* The FunctionDef node of the declaration whose lines start at line first.
DeclNode(d, first) ==
    LET lineno == first + Len(BlockLines(d)) + d.gap IN
    [node   |-> "FunctionDef",
     name   |-> d.name,
     lineno |-> lineno,
     args   |-> [posonlyargs |-> ArgNodes(d.posonly),
                 args        |-> ArgNodes(d.args),
                 vararg      |-> IF d.vararg = <<>> THEN None ELSE ArgNode(d.vararg[1]),
                 kwonlyargs  |-> ArgNodes(d.kwonly),
                 kwarg       |-> IF d.kwarg = <<>> THEN None ELSE ArgNode(d.kwarg[1])],
     body   |-> BodyNodes(d.body, lineno + 1),
     names  |-> UNION {StmtNames(d.body[i]) : i \in 1..Len(d.body)}]

\* A declaration as written down: its name, its parameters by kind, what its
\* comment block holds, the blank lines under the block, and its body.
Decl(name, posonly, args, vararg, kwonly, kwarg, hdr, documented, cases, gap, desc, body) ==
    [name |-> name, posonly |-> posonly, args |-> args, vararg |-> vararg,
     kwonly |-> kwonly, kwarg |-> kwarg, hdr |-> hdr, documented |-> documented,
     cases |-> cases, gap |-> gap, desc |-> desc, body |-> body]

SHORT_DESC == <<" ","x">>
LONG_DESC == <<" ","a"," ","b"," ","c"," ","d">>

\* The sequences over S of length lo to hi.
SeqsOf(S, lo, hi) == UNION {[1..n -> S] : n \in lo..hi}

----------------------------------------------------------------------------
(* The hash salt *)

NameUniverse == {P, M, ALL_NAME}

\* What the salt decides: the place of each name in a set's iteration.
Seeds ==
    {h \in [NameUniverse -> 1..Cardinality(NameUniverse)] :
        \A a, b \in NameUniverse : a # b => h[a] # h[b]}

NoSeed == [n \in NameUniverse |-> 0]

----------------------------------------------------------------------------
(* The variables a specification leaves alone *)

IdleExtract == start_index = 0 /\ block = <<>>
IdleComment == comments = <<>> /\ total_lines = 0
IdleFunction ==
    func = None /\ imports = {} /\ globals_in_module = {} /\ next_node = None
IdleLint == file = None /\ runs = <<>>
IdleMain ==
    /\ files = <<>> /\ call_kwargs = {} /\ path_i = 0 /\ errors = <<>>
    /\ printed = <<>> /\ tests_done = 0 /\ ret = <<>>

extractVars == <<start_index, block>>
commentVars == <<comments, total_lines>>
functionVars == <<func, imports, globals_in_module, next_node>>
lintVars == <<file, runs>>
mainVars == <<files, call_kwargs, path_i, errors, printed, tests_done, ret>>

----------------------------------------------------------------------------
(* extract_range_block called on its own *)

COMMENT_A == <<"#"," ","a">>
COMMENT_B == <<" "," ","#","b">>
CODE_X == <<"x"," ","="," ","0">>
CODE_TRAILING == <<"x"," ","#"," ","a">>
BLANK == <<>>
SPACES == <<" ","\t">>

LineKinds == {COMMENT_A, COMMENT_B, CODE_X, CODE_TRAILING, BLANK, SPACES}

InitExtract ==
    /\ pc = "call"
    /\ lines \in SeqsOf(LineKinds, 0, MaxLines)
    /\ start_index \in 0..Len(lines)
    /\ block = <<>>
    /\ failures = <<>> /\ hashseed = NoSeed
    /\ IdleComment /\ IdleFunction /\ IdleLint /\ IdleMain

ExtractRangeBlock ==
    /\ pc = "call"
    /\ block' = extract_range_block(lines, start_index)
    /\ pc' = "done"
    /\ UNCHANGED <<lines, start_index, failures, hashseed,
                   commentVars, functionVars, lintVars, mainVars>>

NextExtract == ExtractRangeBlock

SpecExtract == InitExtract /\ [][NextExtract]_vars

\* The 1-based number of the lowest line of the run of blank-or-comment lines
\* that ends at line start (start + 1 when line start is not in such a run).
RunLow(ls, start) ==
    CHOOSE j \in 1..(start + 1) :
        /\ \A i \in j..start : IsCommentLine(ls[i]) \/ IsBlankLine(ls[i])
        /\ j > 1 => ~(IsCommentLine(ls[j - 1]) \/ IsBlankLine(ls[j - 1]))

\* C10: extract_range_block returns exactly the comment lines of the maximal
\* run of blank-or-comment lines ending at index start_index - 1, in ascending
\* order: no blank line, nothing from the first code line upward, and the
\* empty sequence when the run holds no comment line.
C10_BlockIsCommentsOfRun ==
    pc = "done" =>
        LET low == RunLow(lines, start_index)
            run == SubSeq(lines, low, start_index)
        IN  /\ block = SelectSeq(run, IsCommentLine)
            /\ \A i \in 1..Len(block) : ~IsBlankLine(block[i])
            /\ (\A i \in 1..Len(run) : ~IsCommentLine(run[i])) => block = <<>>
            /\ Len(block) <= start_index - low + 1

\* C10's case: a scan that crosses a blank line between two different comment
\* lines and is stopped by a code line above them.
C10_Witness ==
    /\ pc = "done"
    /\ Len(block) = 2 /\ block[1] # block[2]
    /\ RunLow(lines, start_index) > 1
    /\ \E i \in RunLow(lines, start_index)..start_index : IsBlankLine(lines[i])

----------------------------------------------------------------------------
(* check_comment_rules on the comments parse_comments finds, as lint_file  *)
(* calls them                                                              *)

RECURSIVE Repeat(_, _)
Repeat(c, n) == IF n = 0 THEN <<>> ELSE <<c>> \o Repeat(c, n - 1)

\* A comment line: indent spaces, hashes markers, then n one-letter words.
CommentLine(indent, hashes, n) ==
    Repeat(" ", indent) \o Repeat("#", hashes) \o Repeat(" ", IF n > 0 THEN 1 ELSE 0)
    \o JoinWith(Repeat(<<"w">>, n), <<" ">>)

CommentLineKinds ==
    {CommentLine(indent, hashes, n) :
        indent \in 0..MaxIndent, hashes \in 1..2, n \in 0..MaxWords}
    \cup {CODE_X, BLANK}

InitComment ==
    /\ pc = "parse"
    /\ lines \in SeqsOf(CommentLineKinds, 0, MaxCommentLines)
    /\ comments = <<>> /\ total_lines = 0
    /\ failures = <<>> /\ hashseed = NoSeed
    /\ IdleExtract /\ IdleFunction /\ IdleLint /\ IdleMain

\* comments, _ = parse_comments(lines), with len(lines) as total_lines
ParseComments ==
    /\ pc = "parse"
    /\ comments' = parse_comments(lines).comments
    /\ total_lines' = Len(lines)
    /\ pc' = "check"
    /\ UNCHANGED <<lines, failures, hashseed, extractVars, functionVars,
                   lintVars, mainVars>>

CheckCommentRules ==
    /\ pc = "check"
    /\ failures' = check_comment_rules(comments, total_lines)
    /\ pc' = "done"
    /\ UNCHANGED <<lines, hashseed, commentVars, extractVars, functionVars,
                   lintVars, mainVars>>

NextComment == ParseComments \/ CheckCommentRules

SpecComment == InitComment /\ [][NextComment]_vars

\* Whether the returned list holds violation v.
Reported(v) == \E i \in 1..Len(failures) : failures[i] = v

\* The body as the specification words it: the text without its surrounding
\* whitespace and without any leading comment marker.
StrippedBody(text) == strip(lstrip_chars(strip(text), {"#"}))

\* C4: a comment is reported too short exactly when its body, taken after
\* the surrounding whitespace and the leading markers are removed, has 5
\* words or fewer, also when whitespace precedes the marker.
C4_TooShortIffFiveWordsOrFewer ==
    pc = "done" =>
        \A i \in 1..Len(comments) :
            Reported(LineViolation("COMMENT_TOO_SHORT", comments[i][1]))
            <=> Len(split_ws(StrippedBody(comments[i][2]))) <= TooShortWords

----------------------------------------------------------------------------
(* check_comment_rules called on a comment list and a line count of the    *)
(* caller's choice, as test_check_comment_rules calls it                   *)

MaxListed == 3
MaxTotalLines == 10

WORD_A == <<"a">>
WORD_B == <<"b">>

\* Comment texts: markers, words separated by gap spaces, trailing spaces.
ListedText(indent, hashes, ws, gap, trail) ==
    Repeat(" ", indent) \o Repeat("#", hashes)
    \o (IF ws # <<>> THEN <<" ">> ELSE <<>>)
    \o JoinWith(ws, Repeat(" ", gap)) \o Repeat(" ", trail)

ListedTexts ==
    {ListedText(0, 1, <<WORD_A, WORD_B>>, 1, 0),
     ListedText(0, 2, <<WORD_A, WORD_B>>, 1, 0),
     ListedText(0, 1, <<WORD_A, WORD_B>>, 1, 1),
     ListedText(1, 1, <<WORD_A, WORD_B>>, 1, 0),
     ListedText(0, 1, <<WORD_A, WORD_B>>, 2, 0),
     ListedText(0, 1, <<WORD_B>>, 1, 0),
     ListedText(0, 1, <<>>, 1, 0),
     ListedText(0, 2, <<>>, 1, 0)}

\* The (lineno, text) pairs of texts, in line order, step lines apart.
Listed(texts, step) == [i \in 1..Len(texts) |-> <<i * step, texts[i]>>]

InitDuplicate ==
    /\ pc = "check"
    /\ \E texts \in SeqsOf(ListedTexts, 0, MaxListed), step \in 1..2 :
           comments = Listed(texts, step)
    /\ total_lines \in 0..MaxTotalLines
    /\ lines = <<>> /\ failures = <<>> /\ hashseed = NoSeed
    /\ IdleExtract /\ IdleFunction /\ IdleLint /\ IdleMain

NextDuplicate == CheckCommentRules

SpecDuplicate == InitDuplicate /\ [][NextDuplicate]_vars

\* The comments that an earlier comment of the list shares its body with,
\* the body being the text without its surrounding whitespace and without
\* its leading comment markers.
LaterOccurrences ==
    {i \in 1..Len(comments) :
        \E j \in 1..(i - 1) : StrippedBody(comments[j][2]) = StrippedBody(comments[i][2])}

DistinctBodies == {StrippedBody(comments[i][2]) : i \in 1..Len(comments)}

TimesReported(v) == Cardinality({k \in 1..Len(failures) : failures[k] = v})

IsDuplicate(v) == v.kind = "DUPLICATE_COMMENT_FOUND"

\* C12: whatever total_lines is, a comment gets a duplicate violation
\* exactly when an earlier comment of the list has the identical body: the
\* first occurrence of a body gets none, every later occurrence gets exactly
\* one, and the duplicate violations number the comments minus the distinct
\* bodies.
C12_DuplicateIffEarlierSameBody ==
    pc = "done" =>
        /\ \A i \in 1..Len(comments) :
               TimesReported(LineViolation("DUPLICATE_COMMENT_FOUND", comments[i][1]))
               = IF i \in LaterOccurrences THEN 1 ELSE 0
        /\ Len(SelectSeq(failures, IsDuplicate))
           = Len(comments) - Cardinality(DistinctBodies)

\* The same statement with the body as line 94 computes it: the seen set
\* reports every later occurrence of a computed body once, and no first one.
DuplicateIffEarlierSameComputedBody ==
    pc = "done" =>
        /\ \A i \in 1..Len(comments) :
               TimesReported(LineViolation("DUPLICATE_COMMENT_FOUND", comments[i][1]))
               = IF \E j \in 1..(i - 1) :
                        comment_body(comments[j][2]) = comment_body(comments[i][2])
                 THEN 1 ELSE 0
        /\ Len(SelectSeq(failures, IsDuplicate))
           = Len(comments)
             - Cardinality({comment_body(comments[i][2]) : i \in 1..Len(comments)})

----------------------------------------------------------------------------
(* check_function_rules called on one declaration *)

Sig(posonly, args, vararg, kwonly, kwarg) ==
    [posonly |-> posonly, args |-> args, vararg |-> vararg,
     kwonly |-> kwonly, kwarg |-> kwarg]

SigNone == Sig(<<>>, <<>>, <<>>, <<>>, <<>>)
PlainSignatures == {SigNone, Sig(<<>>, <<P>>, <<>>, <<>>, <<>>),
                    Sig(<<>>, <<P, M>>, <<>>, <<>>, <<>>)}
Signatures ==
    PlainSignatures
    \cup {Sig(<<P>>, <<>>, <<>>, <<>>, <<>>), Sig(<<>>, <<>>, <<P>>, <<>>, <<>>),
          Sig(<<>>, <<>>, <<>>, <<P>>, <<>>), Sig(<<>>, <<>>, <<>>, <<>>, <<P>>)}

SigParams(sg) == sg.posonly \o sg.args \o sg.vararg \o sg.kwonly \o sg.kwarg
Range(seq) == {seq[i] : i \in 1..Len(seq)}

DeclOf(name, sg, hdr, documented, cases, gap, body) ==
    Decl(name, sg.posonly, sg.args, sg.vararg, sg.kwonly, sg.kwarg,
         hdr, documented, cases, gap, SHORT_DESC, body)

ScopeStmts == {PassStmt, LoadStmt(P), StoreStmt(P), LoadStmt(M), StoreStmt(M)}
SeedStmts == {PassStmt, SeedStmt, SeedTailStmt, SeedSplitStmt}
HeaderKinds == {"none", "own", "bare", "longer", "other", "plain"}
CaseKinds == {"none", "arrow", "noarrow"}
NextKinds == {"none", "test", "plain", "assign"}

\* Declarations that differ in what they read and write.
ScopeDecls ==
    {DeclOf(F_NAME, sg, "own", Range(SigParams(sg)), "none", 1, body) :
        sg \in PlainSignatures, body \in SeqsOf(ScopeStmts, 1, MaxBody)}

\* Declarations that differ in their comment block and their parameters.
BlockDecls ==
    UNION {{DeclOf(name, sg, hdr, documented, cases, gap, <<stmt>>) :
               name \in {F_NAME, TEST_F}, hdr \in HeaderKinds,
               documented \in SUBSET Range(SigParams(sg)), cases \in CaseKinds,
               gap \in 0..MaxGap, stmt \in {PassStmt, SeedStmt}} :
           sg \in Signatures}

\* Declarations that differ in where their body seeds.
SeedDecls ==
    {DeclOf(name, SigNone, "own", {}, "none", 1, body) :
        name \in {F_NAME, TEST_F}, body \in SeqsOf(SeedStmts, 1, MaxBody)}

\* The top-level sibling written under the declaration: its lines and node.
NextDecl(kind) ==
    DeclOf(IF kind = "test" THEN TEST_F ELSE G_NAME, SigNone, "own", {}, "none", 0,
           <<SeedStmt>>)

SiblingLines(kind) ==
    CASE kind = "none" -> <<>>
      [] kind = "assign" -> <<CODE_X>>
      [] OTHER -> DeclLines(NextDecl(kind))

AssignNode(ids) ==
    [node |-> "Assign",
     targets |-> [i \in 1..Len(ids) |-> [node |-> "Name", id |-> ids[i]]]]

SiblingNode(kind, first) ==
    CASE kind = "none" -> None
      [] kind = "assign" -> AssignNode(<< <<"x">> >>)
      [] OTHER -> DeclNode(NextDecl(kind), first)

FunctionInputs ==
         {<<d, imps, globs, "test">> :
             d \in ScopeDecls, imps \in SUBSET {P, M}, globs \in SUBSET {P, M}}
    \cup {<<d, {}, {}, nxt>> : d \in BlockDecls, nxt \in NextKinds}
    \cup {<<d, {}, {}, nxt>> : d \in SeedDecls, nxt \in {"none", "test"}}

InitFunction ==
    /\ pc = "call"
    /\ \E inp \in FunctionInputs :
          /\ lines = DeclLines(inp[1]) \o SiblingLines(inp[4])
          /\ func = DeclNode(inp[1], 1)
          /\ imports = inp[2]
          /\ globals_in_module = inp[3]
          /\ next_node = SiblingNode(inp[4], Len(DeclLines(inp[1])) + 1)
    /\ hashseed \in Seeds
    /\ failures = <<>>
    /\ IdleExtract /\ IdleComment /\ IdleLint /\ IdleMain

CheckFunctionRules ==
    /\ pc = "call"
    /\ failures' = check_function_rules(func, lines, imports, globals_in_module,
                                        next_node, hashseed)
    /\ pc' = "done"
    /\ UNCHANGED <<lines, hashseed, functionVars, extractVars, commentVars,
                   lintVars, mainVars>>

NextFunction == CheckFunctionRules

SpecFunction == InitFunction /\ [][NextFunction]_vars

\* The names of all the formal parameters of f, in the order of its def line.
ParamNames(f) ==
       arg_names(f.args.posonlyargs) \o arg_names(f.args.args)
    \o (IF f.args.vararg = None THEN <<>> ELSE <<f.args.vararg.arg>>)
    \o arg_names(f.args.kwonlyargs)
    \o (IF f.args.kwarg = None THEN <<>> ELSE <<f.args.kwarg.arg>>)

\* The expectation block of the declaration under check.
ExpectationBlock == extract_range_block(lines, func.lineno - 1)

\* Whether the sibling after the declaration is a test_ function.
TestFollows ==
    next_node.node = "FunctionDef" /\ startswith(next_node.name, TEST_PREFIX)

\* C1: for every name of imports (of globals_in_module) the implicit-import
\* (out-of-scope) violation is reported exactly when the declaration reads
\* the name, does not have it as a parameter and does not assign it.
C1_ScopeViolationIffFreeRead ==
    pc = "done" =>
        LET free(name) == /\ name \in visitor_used(func)
                          /\ name \notin Range(ParamNames(func))
                          /\ name \notin visitor_assigned(func)
        IN  /\ \A name \in imports :
                  Reported(NameViolation("IMPLICIT_IMPORT_VIOLATION", func.name, name))
                  <=> free(name)
            /\ \A name \in globals_in_module :
                  Reported(NameViolation("OUT_OF_SCOPE_VARIABLE", func.name, name))
                  <=> free(name)

\* C2 as claimed: a parameterless declaration with an empty expectation block
\* and no test_ function after it gets both the missing-header and the
\* missing-test violation, whatever its name.
C2_BothWhateverTheName ==
    (pc = "done" /\ ParamNames(func) = <<>> /\ ExpectationBlock = <<>> /\ ~TestFollows)
    => /\ Reported(DeclViolation("MISSING_RANGE_EXPECTATION", func.name))
       /\ Reported(DeclViolation("IMMEDIATE_TEST_MISSING", func.name))

\* C2, amended: such a declaration always gets the missing-header violation,
\* and gets the missing-test violation exactly when its own name does not
\* start with test_.
C2_MissingHeaderAndTestUnlessTest ==
    (pc = "done" /\ ParamNames(func) = <<>> /\ ExpectationBlock = <<>> /\ ~TestFollows)
    => /\ Reported(DeclViolation("MISSING_RANGE_EXPECTATION", func.name))
       /\ Reported(DeclViolation("IMMEDIATE_TEST_MISSING", func.name))
          <=> ~startswith(func.name, TEST_PREFIX)

\* C2's case: a parameterless test_ declaration with no block and no test_
\* sibling, reported for its header and not for a missing test.
C2_Witness ==
    /\ pc = "done" /\ ParamNames(func) = <<>> /\ ExpectationBlock = <<>> /\ ~TestFollows
    /\ startswith(func.name, TEST_PREFIX)
    /\ Reported(DeclViolation("MISSING_RANGE_EXPECTATION", func.name))
    /\ ~Reported(DeclViolation("IMMEDIATE_TEST_MISSING", func.name))

\* The source lines of the body: first line of the first statement through
\* last line of the last statement.
BodyRange(f) == f.body[1].lineno .. f.body[Len(f.body)].end_lineno

\* C3: a test_ declaration gets the non-deterministic-testing violation
\* exactly when '.seed(' is on no line of its body range, and a declaration
\* without the prefix never gets it.
C3_NonDeterministicIffNoSeedLine ==
    pc = "done" =>
        (Reported(DeclViolation("NON_DETERMINISTIC_TESTING", func.name))
         <=> /\ startswith(func.name, TEST_PREFIX)
             /\ \A i \in BodyRange(func) : ~contains(lines[i], SEED_CALL))

\* The declaration name written after the marker on a block line, <<>> when
\* the line does not start with the marker.
MarkerName(line) ==
    IF startswith(line, RANGE_MARKER)
    THEN LET rest == SubSeq(line, Len(RANGE_MARKER) + 1, Len(line))
             words == split_ws(rest)
         IN  IF words = <<>> \/ rest[1] \in Whitespace THEN <<>> ELSE words[1]
    ELSE <<>>

\* C8: the missing-header violation is reported exactly when the block is
\* empty or its first line does not name exactly this declaration after the
\* marker.
C8_MissingHeaderIffNotExactName ==
    pc = "done" =>
        (Reported(DeclViolation("MISSING_RANGE_EXPECTATION", func.name))
         <=> \/ ExpectationBlock = <<>>
             \/ MarkerName(ExpectationBlock[1]) # func.name)

\* The incomplete-documentation violations owed to the parameters params.
RECURSIVE OwedIncomplete(_)
OwedIncomplete(params) ==
    IF params = <<>> THEN <<>>
    ELSE (IF \E i \in 1..Len(ExpectationBlock) :
                 param_doc_match(ExpectationBlock[i], Head(params))
          THEN <<>>
          ELSE <<NameViolation("RANGE_EXPECTATION_INCOMPLETE", func.name, Head(params))>>)
         \o OwedIncomplete(Tail(params))

IsIncomplete(v) == v.kind = "RANGE_EXPECTATION_INCOMPLETE"

\* C9: every formal parameter of any kind that no block line documents gets
\* one incomplete-documentation violation, in parameter order, and no other
\* parameter gets one.
C9_IncompleteForEveryUndocumentedParam ==
    pc = "done" =>
        SelectSeq(failures, IsIncomplete) = OwedIncomplete(ParamNames(func))

----------------------------------------------------------------------------
(* Files: the text lint_file reads and the tree ast.parse gives for it *)

Alias(name, asname) == [name |-> name, asname |-> asname]

AliasText(a) ==
    a.name \o (IF a.asname # <<>> THEN <<" ","a","s"," ">> \o a.asname ELSE <<>>)

ImportLine(aliases) ==
    <<"i","m","p","o","r","t"," ">>
    \o JoinWith([i \in 1..Len(aliases) |-> AliasText(aliases[i])], <<","," ">>)

AssignLine(id) == id \o <<" ","="," ","0">>
ALL_LINE == ALL_NAME \o <<" ","="," ","[","]">>

RECURSIVE DeclsLines(_)
DeclsLines(decls) ==
    IF decls = <<>> THEN <<>> ELSE DeclLines(Head(decls)) \o DeclsLines(Tail(decls))

RECURSIVE DeclsNodes(_, _)
DeclsNodes(decls, first) ==
    IF decls = <<>> THEN <<>>
    ELSE <<DeclNode(Head(decls), first)>>
         \o DeclsNodes(Tail(decls), first + Len(DeclLines(Head(decls))))

RECURSIVE Terminated(_)
Terminated(ls) ==
    IF ls = <<>> THEN <<>> ELSE Head(ls) \o <<"\n">> \o Terminated(Tail(ls))

\* A file: comment lines on top, one import statement, one assignment per
\* name of assigns, the declarations, then the __all__ assignment.
MkFile(path, top, aliases, assigns, decls, with_all) ==
    LET head == top
                \o (IF aliases # <<>> THEN <<ImportLine(aliases)>> ELSE <<>>)
                \o [i \in 1..Len(assigns) |-> AssignLine(assigns[i])]
    IN  [path   |-> path,
         parses |-> TRUE,
         raw    |-> Terminated(head \o DeclsLines(decls)
                               \o (IF with_all THEN <<ALL_LINE>> ELSE <<>>)),
         tree   |->    (IF aliases # <<>>
                        THEN <<[node |-> "Import", names |-> aliases]>> ELSE <<>>)
                    \o [i \in 1..Len(assigns) |-> AssignNode(<<assigns[i]>>)]
                    \o DeclsNodes(decls, Len(head) + 1)
                    \o (IF with_all THEN <<AssignNode(<<ALL_NAME>>)>> ELSE <<>>)]

\* A file ast.parse rejects.
UnparsableFile(path) ==
    [path |-> path, parses |-> FALSE, raw |-> <<"d","e","f","\n">>, tree |-> <<>>]

Digits == <<"1","2","3","4","5","6","7","8","9">>
PathOf(i) == <<"f", Digits[i], ".", "p", "y">>

----------------------------------------------------------------------------
(* lint_file run twice on the same file *)

M_DOTTED == M \o <<".","x">>
UPPER_M == <<"M">>

ImportLists ==
    {<<>>, <<Alias(M, <<>>)>>, <<Alias(M, <<>>), Alias(P, <<>>)>>,
     <<Alias(M_DOTTED, <<>>), Alias(G_NAME, P)>>}

AssignLists == {<<>>, <<P>>, <<UPPER_M>>}

LintDecls ==
    {DeclOf(F_NAME, SigNone, "own", {}, "none", 0, <<LoadStmt(M), LoadStmt(P)>>),
     DeclOf(F_NAME, SigNone, "none", {}, "none", 1, <<LoadStmt(M)>>),
     DeclOf(G_NAME, Sig(<<>>, <<P>>, <<>>, <<>>, <<>>), "own", {P}, "noarrow", 0,
            <<StoreStmt(M), LoadStmt(P)>>),
     DeclOf(TEST_F, SigNone, "own", {}, "none", 0, <<SeedStmt>>),
     DeclOf(TEST_F, SigNone, "plain", {}, "none", 0, <<LoadStmt(P), LoadStmt(M)>>)}

LintFiles ==
    {MkFile(PathOf(1), <<>>, aliases, assigns, decls, with_all) :
        aliases \in ImportLists, assigns \in AssignLists,
        decls \in SeqsOf(LintDecls, 1, MaxDecls), with_all \in BOOLEAN}

InitLint ==
    /\ pc = "boot"
    /\ file \in LintFiles
    /\ runs = <<>>
    /\ hashseed = NoSeed
    /\ lines = <<>> /\ failures = <<>>
    /\ IdleExtract /\ IdleComment /\ IdleFunction /\ IdleMain

\* A Python process starts: the str hash salt is drawn.
StartInterpreter ==
    /\ pc = "boot"
    /\ hashseed' \in Seeds
    /\ pc' = "ready"
    /\ UNCHANGED <<lines, failures, lintVars, extractVars, commentVars,
                   functionVars, mainVars>>

\* lint_file(path, ...) on the file, at most twice.
LintFile ==
    /\ pc = "ready"
    /\ Len(runs) < 2
    /\ lines' = splitlines(file.raw)
    /\ failures' = lint_file(file, hashseed)
    /\ runs' = Append(runs, failures')
    /\ UNCHANGED <<pc, hashseed, file, extractVars, commentVars, functionVars,
                   mainVars>>

\* The process ends; the next run is another process.
ExitInterpreter ==
    /\ pc = "ready"
    /\ Len(runs) = 1
    /\ hashseed' = NoSeed
    /\ pc' = "boot"
    /\ UNCHANGED <<lines, failures, lintVars, extractVars, commentVars,
                   functionVars, mainVars>>

NextLint == StartInterpreter \/ LintFile \/ ExitInterpreter

SpecLint == InitLint /\ [][NextLint]_vars

\* C7: two runs of lint_file over the same unchanged file return the same
\* violations in the same order.
C7_TwoRunsSameList ==
    Len(runs) = 2 => runs[1] = runs[2]

ExportKinds == {"MODULE_EXPORT_VIOLATION"}
CommentKinds == {"INSUFFICIENT_COMMENT_DENSITY", "COMMENT_TOO_SHORT",
                 "DUPLICATE_COMMENT_FOUND"}

\* How many of the violations vs are of one of kinds.
CountKinds(vs, kinds) == Cardinality({k \in 1..Len(vs) : vs[k].kind \in kinds})

\* Whether a line of the file assigns to __all__ at top level.
AssignsAll(f) ==
    \E i \in 1..Len(splitlines(f.raw)) :
        startswith(splitlines(f.raw)[i], ALL_NAME \o <<" ", "=">>)

\* The names of the top-level declarations of the file, in source order.
RECURSIVE DeclNames(_)
DeclNames(body) ==
    IF body = <<>> THEN <<>>
    ELSE (IF Head(body).node = "FunctionDef" THEN <<Head(body).name>> ELSE <<>>)
         \o DeclNames(Tail(body))

\* vs without its leading violations of the declaration called name.
RECURSIVE AfterGroup(_, _)
AfterGroup(vs, name) ==
    IF vs # <<>> /\ Head(vs).decl = name /\ Head(vs).kind \notin (ExportKinds \cup CommentKinds)
    THEN AfterGroup(Tail(vs), name) ELSE vs

\* Whether vs is one group of violations per declaration of names, a group
\* possibly empty, the groups in the order of names.
RECURSIVE GroupedInOrder(_, _)
GroupedInOrder(vs, names) ==
    IF names = <<>> THEN vs = <<>>
    ELSE GroupedInOrder(AfterGroup(vs, Head(names)), Tail(names))

\* C11: the list lint_file returns starts with the export violation, one
\* when no top-level assignment targets __all__ and none otherwise, goes on
\* with every comment-policy violation, and ends with the violations of the
\* declarations, grouped by declaration in top-level source order.
C11_ExportThenCommentsThenDeclarations ==
    Len(runs) >= 1 =>
        LET n_export  == CountKinds(failures, ExportKinds)
            n_comment == CountKinds(failures, CommentKinds)
        IN  /\ n_export = IF AssignsAll(file) THEN 0 ELSE 1
            /\ \A k \in 1..n_export :
                   failures[k] = DeclViolation("MODULE_EXPORT_VIOLATION", file.path)
            /\ \A k \in (n_export + 1)..(n_export + n_comment) :
                   failures[k].kind \in CommentKinds
            /\ GroupedInOrder(SubSeq(failures, n_export + n_comment + 1, Len(failures)),
                              DeclNames(file.tree))

\* A file without __all__ whose comments break the comment policy and whose
\* two declarations, of different names, both break a declaration rule.
C11_Witness ==
    /\ Len(runs) >= 1
    /\ failures[1].kind \in ExportKinds
    /\ CountKinds(failures, CommentKinds) >= 1
    /\ Len(DeclNames(file.tree)) = 2
    /\ DeclNames(file.tree)[1] # DeclNames(file.tree)[2]
    /\ \A d \in 1..2 :
           \E k \in 1..Len(failures) :
               /\ failures[k].decl = DeclNames(file.tree)[d]
               /\ failures[k].kind \notin (ExportKinds \cup CommentKinds)

----------------------------------------------------------------------------
(* main *)

MAIN_PARAMS == <<"os_mod", "ast_mod", "re_mod", "random_mod">>

\* Whether a call that passes every parameter of main positionally, and the
\* keyword arguments kwargs besides, binds: a keyword must name a parameter
\* that no positional argument has bound.
main_binds(kwargs) ==
    LET bound == Range(MAIN_PARAMS) IN kwargs \subseteq (Range(MAIN_PARAMS) \ bound)

\* The regression self-tests in the order main calls them.
SELF_TESTS ==
    <<"test_collect_python_files", "test_parse_comments", "test_check_comment_rules",
      "test_extract_range_block", "test_check_function_rules", "test_lint_file">>

HELLO_WORLD == <<"#"," ","h","e","l","l","o"," ","w","o","r","l","d">>
PRINT_ONE == <<"p","r","i","n","t","(","1",")">>
GOOD_COMMENT_1 == <<"#"," ","t","h","i","s"," ","c","o","m","m","e","n","t"," ","h","a","s"," ","s","e","v","e","r","a","l"," ","d","i","s","t","i","n","c","t"," ","w","o","r","d","s"," ","f","o","r"," ","v","a","l","i","d","a","t","i","o","n">>
GOOD_COMMENT_2 == <<"#"," ","a","n","o","t","h","e","r"," ","e","x","a","m","p","l","e"," ","l","i","n","e"," ","f","u","l","l","y"," ","d","e","m","o","n","s","t","r","a","t","i","n","g"," ","c","o","m","m","e","n","t"," ","r","e","q","u","i","r","e","m","e","n","t","s"," ","c","l","e","a","r","l","y">>
MARKER_X == <<"#"," ","[","R","A","N","G","E","-","E","X","P","E","C","T","A","T","I","O","N","]",":"," ","x">>
INPUT_LINE == <<"#"," ","I","N","P","U","T",":">>
DEF_X_PASS == <<"d","e","f"," ","x","(",")",":"," ","p","a","s","s">>
DEF_F_PASS == <<"d","e","f"," ","f","(",")",":"," ","p","a","s","s">>
MARKER_START == <<"#"," ","[","R","A","N","G","E","-","E","X","P","E","C","T","A","T","I","O","N","]">>
TMP_BAD == <<"t","m","p","_","b","a","d",".","p","y">>

\* ast_mod.parse('def f():\n    pass').body[0], resp. the tree of tmp_bad.py
ParsedDef(name) ==
    [node |-> "FunctionDef", name |-> name, lineno |-> 1,
     args |-> [posonlyargs |-> <<>>, args |-> <<>>, vararg |-> None,
               kwonlyargs |-> <<>>, kwarg |-> None],
     body |-> <<[lineno |-> 2, end_lineno |-> 2]>>, names |-> {}]

TmpBadFile ==
    [path |-> TMP_BAD, parses |-> TRUE,
     raw |-> <<"d","e","f"," ","x","(",")",":","\n"," "," "," "," ","p","a","s","s">>,
     tree |-> <<ParsedDef(<<"x">>)>>]

\* Whether the assertion of a self-test holds.  test_collect_python_files
\* looks for linter.py under the working directory, which the caller chooses:
\* in_tree says whether it is there.
self_test_passes(name, in_tree, seed) ==
    CASE name = "test_collect_python_files" -> in_tree
      [] name = "test_parse_comments" ->
            Len(parse_comments(<<HELLO_WORLD, PRINT_ONE>>).comments) = 1
      [] name = "test_check_comment_rules" ->
            check_comment_rules(<< <<1, GOOD_COMMENT_1>>, <<2, GOOD_COMMENT_2>> >>, 6) = <<>>
      [] name = "test_extract_range_block" ->
            startswith(extract_range_block(<<MARKER_X, INPUT_LINE, DEF_X_PASS>>, 2)[1],
                       MARKER_START)
      [] name = "test_check_function_rules" ->
            check_function_rules(ParsedDef(F_NAME), <<DEF_F_PASS>>, {}, {}, None, seed)
            # <<>>
      [] name = "test_lint_file" -> lint_file(TmpBadFile, seed) # <<>>

LONG_COMMENT == CommentLine(0, 1, 6)

CleanDecl(name, stmt) ==
    Decl(name, <<>>, <<>>, <<>>, <<>>, <<>>, "own", {}, "none", 0, LONG_DESC, <<stmt>>)

\* What a Python file under the working directory may hold.
FileKinds == {"clean", "clean_decls", "no_all", "scope", "unparsable"}

FileOf(kind, path) ==
    CASE kind = "clean" -> MkFile(path, <<LONG_COMMENT>>, <<>>, <<>>, <<>>, TRUE)
      [] kind = "clean_decls" ->
            MkFile(path, <<LONG_COMMENT>>, <<>>, <<>>,
                   <<CleanDecl(F_NAME, PassStmt), CleanDecl(TEST_F, SeedStmt)>>, TRUE)
      [] kind = "no_all" -> MkFile(path, <<LONG_COMMENT>>, <<>>, <<>>, <<>>, FALSE)
      [] kind = "scope" ->
            MkFile(path, <<LONG_COMMENT>>, <<Alias(M, <<>>), Alias(P, <<>>)>>, <<>>,
                   <<DeclOf(F_NAME, SigNone, "own", {}, "none", 0,
                            <<LoadStmt(M), LoadStmt(P)>>)>>, TRUE)
      [] kind = "unparsable" -> UnparsableFile(path)

\* The keyword arguments of the calls of main: none in linter.py, and
\* include_self_test in test_self_lint.
MainCallKeywords == {{}, {"include_self_test"}}

InitMain ==
    /\ pc = "call"
    /\ \E kinds \in SeqsOf(FileKinds, 0, MaxFiles) :
          files = [i \in 1..Len(kinds) |-> FileOf(kinds[i], PathOf(i))]
    /\ call_kwargs \in MainCallKeywords
    /\ hashseed \in Seeds
    /\ path_i = 0 /\ errors = <<>> /\ printed = <<>> /\ tests_done = 0 /\ ret = <<>>
    /\ lines = <<>> /\ failures = <<>>
    /\ IdleExtract /\ IdleComment /\ IdleFunction /\ IdleLint

mainIdle == <<lines, failures, hashseed, extractVars, commentVars, functionVars, lintVars>>

\* The call binds its arguments to main's parameters, or raises TypeError.
MainCall ==
    /\ pc = "call"
    /\ pc' = IF main_binds(call_kwargs) THEN "loop" ELSE "TypeError"
    /\ UNCHANGED <<mainVars, mainIdle>>

\* MainLintFile with the loop left at the first file that has violations.
MainLintFileBreaks ==
    /\ pc = "loop"
    /\ path_i < Len(files)
    /\ files[path_i + 1].parses
    /\ errors' = errors \o lint_file(files[path_i + 1], hashseed)
    /\ path_i' = IF errors' # <<>> THEN Len(files) ELSE path_i + 1
    /\ UNCHANGED <<pc, files, call_kwargs, printed, tests_done, ret, mainIdle>>

\* One turn of the loop over collect_python_files('.', os_mod).
MainLintFile ==
    /\ pc = "loop"
    /\ path_i < Len(files)
    /\ files[path_i + 1].parses
    /\ errors' = errors \o lint_file(files[path_i + 1], hashseed)
    /\ path_i' = path_i + 1
    /\ UNCHANGED <<pc, files, call_kwargs, printed, tests_done, ret, mainIdle>>

\* ast_mod.parse raises in lint_file and nothing catches it.
MainLintFileRaises ==
    /\ pc = "loop"
    /\ path_i < Len(files)
    /\ ~files[path_i + 1].parses
    /\ pc' = "SyntaxError"
    /\ UNCHANGED <<mainVars, mainIdle>>

\* The loop is over: if errors.
MainLoopEnd ==
    /\ pc = "loop"
    /\ path_i = Len(files)
    /\ pc' = IF errors # <<>> THEN "print" ELSE "tests"
    /\ UNCHANGED <<mainVars, mainIdle>>

MainPrint ==
    /\ pc = "print"
    /\ Len(printed) < Len(errors)
    /\ printed' = Append(printed, errors[Len(printed) + 1])
    /\ UNCHANGED <<pc, files, call_kwargs, path_i, errors, tests_done, ret, mainIdle>>

MainReturnFailure ==
    /\ pc = "print"
    /\ Len(printed) = Len(errors)
    /\ ret' = <<1>>
    /\ pc' = "returned"
    /\ UNCHANGED <<files, call_kwargs, path_i, errors, printed, tests_done, mainIdle>>

MainSelfTestPasses ==
    /\ pc = "tests"
    /\ tests_done < Len(SELF_TESTS)
    /\ \E in_tree \in BOOLEAN :
          self_test_passes(SELF_TESTS[tests_done + 1], in_tree, hashseed)
    /\ tests_done' = tests_done + 1
    /\ UNCHANGED <<pc, files, call_kwargs, path_i, errors, printed, ret, mainIdle>>

\* The assertion of a self-test fails and nothing catches it.
MainSelfTestRaises ==
    /\ pc = "tests"
    /\ tests_done < Len(SELF_TESTS)
    /\ \E in_tree \in BOOLEAN :
          ~self_test_passes(SELF_TESTS[tests_done + 1], in_tree, hashseed)
    /\ pc' = "AssertionError"
    /\ UNCHANGED <<mainVars, mainIdle>>

MainReturnSuccess ==
    /\ pc = "tests"
    /\ tests_done = Len(SELF_TESTS)
    /\ ret' = <<0>>
    /\ pc' = "returned"
    /\ UNCHANGED <<files, call_kwargs, path_i, errors, printed, tests_done, mainIdle>>

NextMain ==
    \/ MainCall \/ MainLintFile \/ MainLintFileRaises \/ MainLoopEnd
    \/ MainPrint \/ MainReturnFailure
    \/ MainSelfTestPasses \/ MainSelfTestRaises \/ MainReturnSuccess

SpecMain == InitMain /\ [][NextMain]_vars

\* The violations of the first n files, in file order.
RECURSIVE LintOfFirst(_)
LintOfFirst(n) ==
    IF n = 0 THEN <<>> ELSE LintOfFirst(n - 1) \o lint_file(files[n], hashseed)

\* C5: main decides only after it linted every file, a failing run prints
\* every violation, returns 1 and runs no self-test, the self-tests run only
\* when every file linted clean, and 0 is returned only after all of them.
C5_LintAllThenDecide ==
    /\ pc \in {"print", "tests", "returned", "AssertionError"}
          => path_i = Len(files) /\ errors = LintOfFirst(Len(files))
    /\ pc = "print" => errors # <<>> /\ tests_done = 0
    /\ (pc = "returned" /\ errors # <<>>)
          => ret = <<1>> /\ printed = errors /\ tests_done = 0
    /\ (pc \in {"tests", "AssertionError"} \/ tests_done > 0)
          => /\ path_i = Len(files)
             /\ \A i \in 1..Len(files) : lint_file(files[i], hashseed) = <<>>
    /\ ret = <<0>> => tests_done = Len(SELF_TESTS) /\ errors = <<>>
    /\ ret = <<1>> => errors # <<>>

\* C5's case: the first file has violations, a later file is linted all the
\* same and adds its own, and main has printed them all and returned 1.
C5_Witness ==
    /\ pc = "returned" /\ ret = <<1>>
    /\ Len(files) >= 2
    /\ lint_file(files[1], hashseed) # <<>>
    /\ Len(errors) > Len(lint_file(files[1], hashseed))
    /\ printed = errors /\ tests_done = 0

\* C6: main called with include_self_test=False over a tree of one or more
\* files that all lint clean does not raise and returns 0.
C6_KeywordCallReturnsZero ==
    (/\ call_kwargs = {"include_self_test"}
     /\ \A i \in 1..Len(files) :
           files[i].parses /\ lint_file(files[i], hashseed) = <<>>
     /\ pc \notin {"call", "loop", "tests"}
     /\ Len(files) >= 1)
    => pc = "returned" /\ ret = <<0>>

====
